---- MODULE Spec2Model ----
(***************************************************************************)
(* Model of run_simulator.py: the sweep of across_paths over the loaded    *)
(* networks and the option grid, _run_stage for one cell, and              *)
(* multiple_simulations with its worker pool, its retry loop and the       *)
(* sequential map.  The simulation engine, the network loader, numpy's     *)
(* generator, the wall clock and the two sinks are the environment.        *)
(***************************************************************************)
EXTENDS Integers, Sequences, FiniteSets, TLC

\* ---------------------------------------------------------------- bounds
MaxStns == 2          \* networks given to across_paths
MaxGrid == 2          \* length of ordering_pairs
MaxCount == 2         \* sim_count, trials per cell
MaxThreads == 2       \* threads
MaxClock == 1         \* readings of the wall clock
MaxRootSeed == 1      \* root seeds 0..MaxRootSeed
MaxEntropy == 1       \* draws of an unseeded engine
MaxPaths == 2         \* length of folder_paths
MaxEntries == 2       \* entries of the harvested directory

\* ------------------------------------------------------ program constants
MAX_SEED == 2147483647
MaxRetries == 3
BackoffSeconds == 3

None == -1

Min(a, b) == IF a < b THEN a ELSE b

RECURSIVE GCD(_, _)
GCD(a, b) == IF b = 0 THEN a ELSE GCD(b, a % b)

\* Python's true division of two non-negative integers, d > 0, as a reduced
\* fraction <<numerator, denominator>>; <<0, 0>> stands for 0/0, which the
\* program never gets to evaluate.
Div(n, d) ==
    LET g == GCD(n, d) IN IF g = 0 THEN <<0, 0>> ELSE <<n \div g, d \div g>>

RECURSIVE SumSeq(_)
SumSeq(s) == IF s = <<>> THEN 0 ELSE Head(s) + SumSeq(Tail(s))

RECURSIVE CountTrue(_)
CountTrue(s) ==
    IF s = <<>> THEN 0
    ELSE (IF Head(s) = TRUE THEN 1 ELSE 0) + CountTrue(Tail(s))

\* An optional list: Python's None or a list.
NoList == [some |-> FALSE, val |-> <<>>]
SomeList(l) == [some |-> TRUE, val |-> l]

\* ------------------------------------------------------------ environment
\* numpy's RandomState: a deterministic generator, a function of its state.
RandomState(seed) == seed % 16
RandomStateStep(state) == (5 * state + 3) % 16
randint(state, high) == RandomStateStep(state) % high

\* The loaded networks, as owner ids of their vertices.  Vertex 0 is the zero
\* timepoint and has no owner; the last vertex of an even network has no
\* owner either.
StnVerts(stn) ==
    [v \in 0..(stn + 2) |->
        IF v = 0 \/ (stn % 2 = 0 /\ v = stn + 2) THEN None ELSE v % 2]
StnAgents(stn) == {0, 1}
StnEdges(stn) == stn + 3
StnInteragentEdges(stn) == stn
\* sigma of each contingent edge; None: reading it raises ValueError
StnContingentSigma(stn) == IF stn % 2 = 0 THEN <<2, None>> ELSE <<1, 3>>
StnName(stn) == stn

\* The engine: simulate() of a seeded simulator is a function of the seed, the
\* network, the strategy and the options; an unseeded one draws from entropy.
EngineResult(h) == <<h % 2 = 0, h % 3, (h \div 2) % 2>>
SeededOutcome(seed, stn, strat, opts) ==
    EngineResult(seed + stn + opts.ar_threshold + opts.si_threshold
                 + opts.alp_threshold + (IF strat = "da" THEN 1 ELSE 0))
UnseededOutcomes == {EngineResult(h) : h \in 0..MaxEntropy}
TrialErrors == {"BlockingIOError", "Exception"}

NoResult == <<FALSE, None, None>>

\* The file system.  A path is the sequence of its names; folder_paths draws
\* from the two top paths, <<1>> can be a directory of MaxEntries entries and
\* <<1, 1>> a subdirectory of one entry.  An entry is a file with its
\* extension, a directory, or something that is neither (a dangling link).
TopNames == {1, 2}
FsPaths ==
    {<<n>> : n \in TopNames} \cup {<<1, n>> : n \in 1..MaxEntries}
        \cup {<<1, 1, 1>>}
JsonFile == [type |-> "file", ext |-> ".json"]
TextFile == [type |-> "file", ext |-> ".txt"]
Directory == [type |-> "dir", ext |-> ""]
Neither == [type |-> "none", ext |-> ""]
FsEntries == {JsonFile, TextFile, Directory, Neither}
Parent(p) == SubSeq(p, 1, Len(p) - 1)
\* only a directory has entries
FileSystems ==
    {f \in [FsPaths -> FsEntries] :
        \A p \in FsPaths :
            (Len(p) > 1 /\ f[Parent(p)] # Directory) => f[p] = Neither}
\* the orders in which os.listdir can return the entries of <<1>>
ListingOrders ==
    {o \in [1..MaxEntries -> 1..MaxEntries] :
        \A a, b \in 1..MaxEntries : o[a] = o[b] => a = b}

\* ------------------------------------------------------------------ state
VARIABLES
    \* arguments of across_paths
    stn_pairs, execution, threads, sim_count, sim_options, ordering_pairs,
    output, live_updates, random_seed, start_index, stop_index,
    \* across_paths and _run_stage
    pc, i, j, sim_option_instance, response_dict, results_dict,
    live_sink, csv_rows, error, clock, start_time,
    \* multiple_simulations
    seed_gen, tasks, try_count, response, partial, next_job, running, map_exc,
    \* history of the current batch and of the run
    attempts, bio_fails, sleeps, submissions, trial_failed, trial_outcome,
    out_of_order, history,
    \* a second run of the sweep
    run, prev,
    \* folder_harvest: the file system, its arguments and what it returns
    fs, listing, folder_paths, recurse, only_json, stn_files, warned

args == <<stn_pairs, execution, sim_count, sim_options, ordering_pairs,
          output, live_updates>>
run_args == <<threads, start_index, stop_index>>
sweep == <<i, j, sim_option_instance, response_dict, results_dict>>
sinks == <<live_sink, csv_rows, history>>
batch == <<seed_gen, tasks, try_count, response, partial, next_job, running,
           map_exc>>
ghost == <<attempts, bio_fails, sleeps, submissions, trial_failed,
           trial_outcome, out_of_order>>
harvest == <<fs, listing, folder_paths, recurse, only_json, stn_files, warned>>
vars == <<args, run_args, random_seed, pc, sweep, sinks, error, clock,
          start_time, batch, ghost, run, prev, harvest>>

RootSeeds == 0..MaxRootSeed
DefaultOptions == [ar_threshold |-> 0, alp_threshold |-> 1, si_threshold |-> 1]
\* the grid: pair k is (AR, SC) = (k, k + 1)
GridOf(n) == [k \in 1..n |-> <<k, k + 1>>]
NoPrev == [history |-> <<>>, threads |-> 0, start_index |-> 0,
           stop_index |-> None]

\* nothing has run yet
Fresh ==
    /\ i = 0 /\ j = 0
    /\ sim_option_instance = DefaultOptions
    /\ response_dict = <<>>
    /\ results_dict = <<>>
    /\ live_sink = <<>> /\ csv_rows = <<>> /\ history = <<>>
    /\ error = "" /\ clock = 0 /\ start_time = 0
    /\ seed_gen = 0 /\ tasks = <<>> /\ try_count = 0
    /\ response = NoList /\ partial = <<>> /\ next_job = 0 /\ running = {}
    /\ map_exc = ""
    /\ attempts = 0 /\ bio_fails = 0 /\ sleeps = 0 /\ submissions = 0
    /\ trial_failed = FALSE /\ trial_outcome = <<>> /\ out_of_order = FALSE
    /\ run = 1 /\ prev = NoPrev

\* the file system untouched and folder_harvest not called
NoHarvest ==
    /\ fs = [p \in FsPaths |-> Neither]
    /\ listing = [n \in 1..MaxEntries |-> n]
    /\ folder_paths = <<>>
    /\ recurse = TRUE /\ only_json = TRUE
    /\ stn_files = <<>> /\ warned = <<>>

\* The state at the call: the arguments drawn from the given sets, nothing run.
Setup(Stns, Grids, Counts, Strats, Flags, Seeds, Starts, Stops, Workers) ==
    /\ \E n \in Stns : stn_pairs = [k \in 1..n |-> k]
    /\ execution \in Strats
    /\ threads \in Workers
    /\ sim_count \in Counts
    /\ sim_options = DefaultOptions
    /\ ordering_pairs \in Grids
    /\ output \in Flags
    /\ live_updates \in Flags
    /\ random_seed \in Seeds
    /\ start_index \in Starts
    /\ stop_index \in Stops
    /\ pc \in {"main", "loop"}
    /\ Fresh
    /\ NoHarvest

\* a sweep over the networks and the grid: batches of at most one trial, root
\* seed 0, sequential or with the largest pool
Init ==
    Setup(1..MaxStns, {NoList} \cup {SomeList(GridOf(n)) : n \in 1..MaxGrid},
          0..1, {"early"}, BOOLEAN, {0}, 0..1, {None} \cup 1..MaxStns,
          {1, MaxThreads})

\* a full sweep of one trial per cell with root seed 0, sequential or with the
\* largest pool, to be run twice
InitTwice ==
    Setup(1..MaxStns, {NoList} \cup {SomeList(GridOf(n)) : n \in 1..MaxGrid},
          {1}, {"early"}, {TRUE}, {0}, {0}, {None}, {1, MaxThreads})

\* a full seeded sweep of two trials per cell, nothing emitted
InitSeeded ==
    Setup(1..MaxStns, {NoList} \cup {SomeList(GridOf(n)) : n \in 1..MaxGrid},
          {2}, {"early"}, {FALSE}, RootSeeds, {0}, {None}, {1, MaxThreads})

\* one cell: a single batch of up to MaxCount trials
InitBatch ==
    Setup({1}, {NoList}, 0..MaxCount, {"early", "da"}, {TRUE},
          {None} \cup RootSeeds, {0}, {None}, 1..MaxThreads)

\* ------------------------------------------------------------------- main
\* main(): the root seed is args.seed, or drawn when that is absent; the
\* options are built with alp_threshold = args.si_threshold.
main ==
    /\ pc = "main"
    /\ \E s \in RootSeeds :
         random_seed' = IF random_seed # None THEN random_seed ELSE s
    /\ sim_options' = [sim_options EXCEPT
                         !.alp_threshold = sim_options.si_threshold]
    /\ pc' = "loop"
    /\ UNCHANGED <<harvest, stn_pairs, execution, sim_count, ordering_pairs, output,
                   live_updates, run_args, sweep, sinks, error, clock,
                   start_time, batch, ghost, run, prev>>

\* ----------------------------------------------------------- across_paths
\* sim_options.copy() with the two thresholds of the grid pair
OptionInstance(opts, execution_setting) ==
    [opts EXCEPT !.ar_threshold = execution_setting[1],
                 !.si_threshold = execution_setting[2]]

StopStnLate(idx, stop) == stop # None /\ idx > stop

SkipStnInclusive(idx, start) == idx <= start

\* i < start_index: continue
SkipStn(idx, start) == idx < start
\* stop_index is not None and i >= stop_index: break
StopStn(idx, stop) == stop # None /\ idx >= stop

\* the grid pair written into the caller's dictionary: no copy
across_paths_iter_nocopy ==
    /\ pc = "loop"
    /\ IF i >= Len(stn_pairs) THEN
            /\ pc' = "done"
            /\ UNCHANGED <<i, j, sim_option_instance, sim_options>>
       ELSE IF SkipStn(i, start_index) THEN
            /\ i' = i + 1 /\ j' = 0
            /\ UNCHANGED <<pc, sim_option_instance, sim_options>>
       ELSE IF StopStn(i, stop_index) THEN
            /\ pc' = "done"
            /\ UNCHANGED <<i, j, sim_option_instance, sim_options>>
       ELSE IF ordering_pairs.some THEN
            IF j < Len(ordering_pairs.val) THEN
                /\ sim_option_instance' =
                       OptionInstance(sim_options, ordering_pairs.val[j + 1])
                /\ sim_options' = sim_option_instance'
                /\ pc' = "stage"
                /\ UNCHANGED <<i, j>>
            ELSE
                /\ i' = i + 1 /\ j' = 0
                /\ UNCHANGED <<pc, sim_option_instance, sim_options>>
       ELSE
            /\ sim_option_instance' = sim_options
            /\ pc' = "stage"
            /\ UNCHANGED <<i, j, sim_options>>
    /\ UNCHANGED <<harvest, stn_pairs, execution, sim_count, ordering_pairs,
                   output, live_updates,
                   run_args, random_seed, response_dict, results_dict,
                   sinks, error, clock, start_time, batch, ghost, run, prev>>

\* One evaluation of the loop heads of across_paths: the outer loop over
\* stn_pairs (index i) and, with ordering_pairs, the inner loop (index j).
across_paths_iter ==
    /\ pc = "loop"
    /\ IF i >= Len(stn_pairs) THEN
            /\ pc' = "done"
            /\ UNCHANGED <<i, j, sim_option_instance>>
       ELSE IF SkipStn(i, start_index) THEN
            /\ i' = i + 1 /\ j' = 0
            /\ UNCHANGED <<pc, sim_option_instance>>
       ELSE IF StopStn(i, stop_index) THEN
            /\ pc' = "done"
            /\ UNCHANGED <<i, j, sim_option_instance>>
       ELSE IF ordering_pairs.some THEN
            IF j < Len(ordering_pairs.val) THEN
                /\ sim_option_instance' =
                       OptionInstance(sim_options, ordering_pairs.val[j + 1])
                /\ pc' = "stage"
                /\ UNCHANGED <<i, j>>
            ELSE
                /\ i' = i + 1 /\ j' = 0
                /\ UNCHANGED <<pc, sim_option_instance>>
       ELSE
            /\ sim_option_instance' = sim_options
            /\ pc' = "stage"
            /\ UNCHANGED <<i, j>>
    /\ UNCHANGED <<harvest, args, run_args, random_seed, response_dict, results_dict,
                   sinks, error, clock, start_time, batch, ghost, run, prev>>

\* --------------------------------------------------- multiple_simulations
SeedGeneratorReused(root, old_gen) == old_gen

\* seed_gen = np.random.RandomState(random_seed): a fresh generator per call
SeedGenerator(root, old_gen) == RandomState(root)

RECURSIVE DrawSeeds(_, _)
DrawSeeds(state, n) ==
    IF n = 0 THEN <<>>
    ELSE <<randint(state, MAX_SEED)>> \o DrawSeeds(RandomStateStep(state), n - 1)

RECURSIVE StateAfter(_, _)
StateAfter(state, n) ==
    IF n = 0 THEN state ELSE StateAfter(RandomStateStep(state), n - 1)

SimulatorClass(strat) ==
    IF strat = "da" THEN "DecoupledSimulator" ELSE "Simulator"

make_simulator_tasks_unseeded(seeds, stn, strat, opts, count) ==
    [k \in 1..count |->
        <<[class |-> SimulatorClass(strat), id |-> k, seed |-> None],
          stn, strat, opts, k - 1>>]

\* one task short: range(1, count)
make_simulator_tasks_short(seeds, stn, strat, opts, count) ==
    [k \in 1..(count - 1) |->
        <<[class |-> SimulatorClass(strat), id |-> k,
           seed |-> IF seeds.some THEN seeds.val[k + 1] ELSE None],
          stn, strat, opts, k>>]

\* one simulator built ahead of the comprehension and put in every task
make_simulator_tasks_shared(seeds, stn, strat, opts, count) ==
    [k \in 1..count |->
        <<[class |-> SimulatorClass(strat), id |-> 1,
           seed |-> IF seeds.some THEN seeds.val[1] ELSE None],
          stn, strat, opts, k - 1>>]

\* the task tuples (simulator, stn, execution_strat, sim_options, i); the
\* simulator of task k is the k-th object the comprehension constructs
make_simulator_tasks(seeds, stn, strat, opts, count) ==
    [k \in 1..count |->
        <<[class |-> SimulatorClass(strat), id |-> k,
           seed |-> IF seeds.some THEN seeds.val[k] ELSE None],
          stn, strat, opts, k - 1>>]

TaskSeeds(ts) == [k \in 1..Len(ts) |-> ts[k][1].seed]

UsePoolForOne(nthreads) == nthreads >= 1

\* if threads > 1
UsePool(nthreads) == nthreads > 1

\* _run_stage reads the clock and calls multiple_simulations, which draws the
\* sub-seeds and builds the tasks.
run_stage_begin ==
    /\ pc = "stage"
    /\ start_time' = clock
    /\ LET gen == SeedGenerator(random_seed, seed_gen)
           seeds == IF random_seed # None
                    THEN SomeList(DrawSeeds(gen, sim_count))
                    ELSE NoList
       IN /\ tasks' = make_simulator_tasks(seeds, stn_pairs[i + 1], execution,
                                           sim_option_instance, sim_count)
          /\ seed_gen' = IF random_seed # None
                         THEN StateAfter(gen, sim_count) ELSE seed_gen
    /\ try_count' = 0
    /\ response' = NoList
    /\ partial' = <<>> /\ next_job' = 0 /\ running' = {} /\ map_exc' = ""
    /\ attempts' = 0 /\ bio_fails' = 0 /\ sleeps' = 0 /\ submissions' = 0
    /\ trial_failed' = FALSE /\ out_of_order' = FALSE
    /\ trial_outcome' = [k \in 1..sim_count |-> NoResult]
    /\ pc' = IF UsePool(threads) THEN "pool" ELSE "seq"
    /\ UNCHANGED <<harvest, args, run_args, random_seed, sweep, sinks, error, clock,
                   run, prev>>

TryAgainOnceLess(count) == count < MaxRetries

TryAgainOnceMore(count) == count <= MaxRetries + 1

\* while try_count <= 3
TryAgain(count) == count <= MaxRetries

\* time.sleep(3.0)
Sleep(now) == Min(now + BackoffSeconds, MaxClock)

\* multiprocessing.Pool(threads) succeeds and pool.map submits the tasks
pool_constructed ==
    /\ pc = "pool" /\ TryAgain(try_count)
    /\ try_count' = try_count + 1
    /\ response' = NoList
    /\ attempts' = attempts + 1
    /\ submissions' = submissions + 1
    /\ partial' = [k \in 1..Len(tasks) |-> NoResult]
    /\ trial_outcome' = [k \in 1..Len(tasks) |-> NoResult]
    /\ next_job' = 0 /\ running' = {} /\ map_exc' = ""
    /\ pc' = "map"
    /\ UNCHANGED <<harvest, args, run_args, random_seed, sweep, sinks, error, clock,
                   start_time, seed_gen, tasks, bio_fails, sleeps,
                   trial_failed, out_of_order, run, prev>>

\* multiprocessing.Pool(threads) raises BlockingIOError: warn, sleep, loop
pool_BlockingIOError ==
    /\ pc = "pool" /\ TryAgain(try_count)
    /\ try_count' = try_count + 1
    /\ response' = NoList
    /\ attempts' = attempts + 1
    /\ bio_fails' = bio_fails + 1
    /\ sleeps' = sleeps + 1
    /\ clock' = Sleep(clock)
    /\ UNCHANGED <<harvest, args, run_args, random_seed, pc, sweep, sinks, error,
                   start_time, seed_gen, tasks, partial, next_job, running,
                   map_exc, submissions, trial_failed, trial_outcome,
                   out_of_order, run, prev>>

\* multiprocessing.Pool(threads) raises anything else: not caught
pool_OSError ==
    /\ pc = "pool" /\ TryAgain(try_count)
    /\ try_count' = try_count + 1
    /\ response' = NoList
    /\ attempts' = attempts + 1
    /\ pc' = "raised" /\ error' = "OSError"
    /\ UNCHANGED <<harvest, args, run_args, random_seed, sweep, sinks, clock,
                   start_time, seed_gen, tasks, partial, next_job, running,
                   map_exc, bio_fails, sleeps, submissions, trial_failed,
                   trial_outcome, out_of_order, run, prev>>

\* the while loop ends without a break: response is still None
pool_loop_exit ==
    /\ pc = "pool" /\ ~TryAgain(try_count)
    /\ pc' = "unzip"
    /\ UNCHANGED <<harvest, args, run_args, random_seed, sweep, sinks, error, clock,
                   start_time, batch, ghost, run, prev>>

\* _multisim_thread_helper: the outcomes simulate() can produce for a task
HelperOutcomes(tup) ==
    IF tup[1].seed # None
    THEN {SeededOutcome(tup[1].seed, tup[2], tup[3], tup[4])}
    ELSE UnseededOutcomes

\* the result goes to the first free position: completion order
MapResultInCompletionOrder(value, k, r) ==
    LET free == CHOOSE f \in 1..Len(value) :
                    /\ value[f] = NoResult
                    /\ \A g \in 1..(f - 1) : value[g] # NoResult
    IN [value EXCEPT ![free] = r]

\* pool.map stores the result of job k at position k of its result list
MapResultSet(value, k, r) == [value EXCEPT ![k] = r]

\* a worker takes the next task of the queue (chunks of one task: the batches
\* here are no larger than 4 * threads)
worker_take ==
    /\ pc = "map"
    /\ next_job < Len(tasks)
    /\ Cardinality(running) < threads
    /\ next_job' = next_job + 1
    /\ running' = running \cup {next_job + 1}
    /\ UNCHANGED <<harvest, args, run_args, random_seed, pc, sweep, sinks, error, clock,
                   start_time, seed_gen, tasks, try_count, response, partial,
                   map_exc, ghost, run, prev>>

\* a worker finishes its trial and hands the result to the pool
worker_finish(k) ==
    /\ pc = "map"
    /\ k \in running
    /\ running' = running \ {k}
    /\ out_of_order' = (out_of_order \/ \E m \in running : m < k)
    /\ \/ \E r \in HelperOutcomes(tasks[k]) :
            /\ partial' = MapResultSet(partial, k, r)
            /\ trial_outcome' = [trial_outcome EXCEPT ![tasks[k][5] + 1] = r]
            /\ UNCHANGED <<map_exc, trial_failed>>
       \/ \E e \in TrialErrors :
            /\ map_exc' = IF map_exc = "" THEN e ELSE map_exc
            /\ trial_failed' = TRUE
            /\ UNCHANGED <<partial, trial_outcome>>
    /\ UNCHANGED <<harvest, args, run_args, random_seed, pc, sweep, sinks, error, clock,
                   start_time, seed_gen, tasks, try_count, response, next_job,
                   attempts, bio_fails, sleeps, submissions, run, prev>>

PoolMapNoBreak == "pool"

\* the statement after pool.map: break
PoolMapBreak == "unzip"

\* pool.map returns the result list
map_return ==
    /\ pc = "map"
    /\ next_job = Len(tasks) /\ running = {} /\ map_exc = ""
    /\ response' = SomeList(partial)
    /\ pc' = PoolMapBreak
    /\ UNCHANGED <<harvest, args, run_args, random_seed, sweep, sinks, error, clock,
                   start_time, seed_gen, tasks, try_count, partial, next_job,
                   running, map_exc, ghost, run, prev>>

\* the results received so far handed back in place of the exception
map_raise_partial ==
    /\ pc = "map"
    /\ next_job = Len(tasks) /\ running = {} /\ map_exc # ""
    /\ response' = SomeList(partial)
    /\ pc' = "unzip"
    /\ UNCHANGED <<harvest, args, run_args, random_seed, sweep, sinks, error, clock,
                   start_time, seed_gen, tasks, try_count, partial, next_job,
                   running, map_exc, ghost, run, prev>>

\* pool.map re-raises the first exception a trial raised; the except clause
\* around the pool catches a BlockingIOError, whoever raised it
map_raise ==
    /\ pc = "map"
    /\ next_job = Len(tasks) /\ running = {} /\ map_exc # ""
    /\ IF map_exc = "BlockingIOError"
       THEN /\ sleeps' = sleeps + 1
            /\ clock' = Sleep(clock)
            /\ pc' = "pool"
            /\ UNCHANGED error
       ELSE /\ pc' = "raised" /\ error' = map_exc
            /\ UNCHANGED <<sleeps, clock>>
    /\ UNCHANGED <<harvest, args, run_args, random_seed, sweep, sinks, start_time,
                   batch, attempts, bio_fails, submissions, trial_failed,
                   trial_outcome, out_of_order, run, prev>>

\* the trial's exception swallowed and the sweep moved on to the next network
seq_trial_continue ==
    /\ pc = "seq"
    /\ Len(partial) < Len(tasks)
    /\ LET k == Len(partial) + 1 IN
       \/ \E r \in HelperOutcomes(tasks[k]) :
            /\ partial' = Append(partial, r)
            /\ trial_outcome' = [trial_outcome EXCEPT ![tasks[k][5] + 1] = r]
            /\ UNCHANGED <<pc, error, trial_failed, i, j>>
       \/ \E e \in TrialErrors :
            /\ pc' = "loop" /\ error' = e
            /\ i' = i + 1 /\ j' = 0
            /\ trial_failed' = TRUE
            /\ UNCHANGED <<partial, trial_outcome>>
    /\ UNCHANGED <<harvest, args, run_args, random_seed, sim_option_instance,
                   response_dict, results_dict, sinks, clock,
                   start_time, seed_gen, tasks, try_count, response, next_job,
                   running, map_exc, attempts, bio_fails, sleeps, submissions,
                   out_of_order, run, prev>>

\* list(map(_multisim_thread_helper, tasks)): the next trial, in task order
seq_trial ==
    /\ pc = "seq"
    /\ Len(partial) < Len(tasks)
    /\ LET k == Len(partial) + 1 IN
       \/ \E r \in HelperOutcomes(tasks[k]) :
            /\ partial' = Append(partial, r)
            /\ trial_outcome' = [trial_outcome EXCEPT ![tasks[k][5] + 1] = r]
            /\ UNCHANGED <<pc, error, trial_failed>>
       \/ \E e \in TrialErrors :
            /\ pc' = "raised" /\ error' = e
            /\ trial_failed' = TRUE
            /\ UNCHANGED <<partial, trial_outcome>>
    /\ UNCHANGED <<harvest, args, run_args, random_seed, sweep, sinks, clock,
                   start_time, seed_gen, tasks, try_count, response, next_job,
                   running, map_exc, attempts, bio_fails, sleeps, submissions,
                   out_of_order, run, prev>>

seq_done ==
    /\ pc = "seq"
    /\ Len(partial) = Len(tasks)
    /\ response' = SomeList(partial)
    /\ pc' = "unzip"
    /\ UNCHANGED <<harvest, args, run_args, random_seed, sweep, sinks, error, clock,
                   start_time, seed_gen, tasks, try_count, partial, next_job,
                   running, map_exc, ghost, run, prev>>

\* the two counters taken from each other's position
UnzipSwapped(resp) ==
    [sample_results |-> [k \in 1..Len(resp) |-> resp[k][1]],
     reschedules |-> [k \in 1..Len(resp) |-> resp[k][3]],
     sent_schedules |-> [k \in 1..Len(resp) |-> resp[k][2]]]

\* unzip the response into the three lists of the response dictionary
Unzip(resp) ==
    [sample_results |-> [k \in 1..Len(resp) |-> resp[k][1]],
     reschedules |-> [k \in 1..Len(resp) |-> resp[k][2]],
     sent_schedules |-> [k \in 1..Len(resp) |-> resp[k][3]]]

\* iterating over None raises TypeError
multiple_simulations_return ==
    /\ pc = "unzip"
    /\ IF response.some
       THEN /\ response_dict' = Unzip(response.val)
            /\ pc' = "aggregate"
            /\ UNCHANGED error
       ELSE /\ pc' = "raised" /\ error' = "TypeError"
            /\ UNCHANGED response_dict
    /\ UNCHANGED <<harvest, args, run_args, random_seed, i, j, sim_option_instance,
                   results_dict, sinks, clock, start_time, batch, ghost, run,
                   prev>>

\* ------------------------------------------------------------- _run_stage
get_agent_verts(stn, agent) ==
    Cardinality({v \in DOMAIN StnVerts(stn) : StnVerts(stn)[v] = agent})

max_agent_verts(stn) ==
    CHOOSE m \in {get_agent_verts(stn, a) : a \in StnAgents(stn)} :
        \A a \in StnAgents(stn) : get_agent_verts(stn, a) <= m

RECURSIVE SumAgentVerts(_, _)
SumAgentVerts(stn, agents) ==
    IF agents = {} THEN 0
    ELSE LET a == CHOOSE x \in agents : TRUE
         IN get_agent_verts(stn, a) + SumAgentVerts(stn, agents \ {a})

\* sum(counts)/len(counts) over the agents; _run_stage does not call it
mean_agent_verts(stn) ==
    Div(SumAgentVerts(stn, StnAgents(stn)), Cardinality(StnAgents(stn)))

\* total_sd: the sum of e.sigma over the contingent edges, skipping the edges
\* whose sigma raises ValueError
RECURSIVE TotalSd(_)
TotalSd(sigmas) ==
    IF sigmas = <<>> THEN 0
    ELSE (IF Head(sigmas) = None THEN 0 ELSE Head(sigmas)) + TotalSd(Tail(sigmas))

RobustnessOfFailures(results) ==
    Div(Len(results) - CountTrue(results), Len(results))

\* results.count(True)/len(results)
Robustness(results) == Div(CountTrue(results), Len(results))

\* an empty batch taken for a divisible one
AggregationFailsOnNetworkOnly(stn, rd) ==
    \/ Cardinality(StnAgents(stn)) = 0
    \/ StnEdges(stn) = 0
    \/ Len(StnContingentSigma(stn)) = 0

\* the divisions of _run_stage that raise ZeroDivisionError
AggregationFails(stn, rd) ==
    \/ Len(rd.sample_results) = 0
    \/ Cardinality(StnAgents(stn)) = 0
    \/ StnEdges(stn) = 0
    \/ Len(StnContingentSigma(stn)) = 0
    \/ Len(rd.reschedules) = 0
    \/ Len(rd.sent_schedules) = 0

ResultsDict(path, stn, rd, opts, seed, nthreads, strat, count, runtime, now) ==
    [execution |-> strat,
     robustness |-> Robustness(rd.sample_results),
     threads |-> nthreads,
     random_seed |-> seed,
     runtime |-> runtime,
     samples |-> count,
     timestamp |-> now,
     stn_path |-> path,
     stn_name |-> StnName(stn),
     ar_threshold |-> opts.ar_threshold,
     si_threshold |-> opts.si_threshold,
     synchronous_density |-> Div(StnInteragentEdges(stn), StnEdges(stn)),
     sd_avg |-> Div(TotalSd(StnContingentSigma(stn)),
                    Len(StnContingentSigma(stn))),
     vert_count |-> Cardinality(DOMAIN StnVerts(stn)),
     agents |-> Cardinality(StnAgents(stn)),
     mean_verts_agent |-> Div(Cardinality(DOMAIN StnVerts(stn)) - 1,
                              Cardinality(StnAgents(stn))),
     max_verts_agent |-> max_agent_verts(stn),
     contingent_density |-> Div(Len(StnContingentSigma(stn)), StnEdges(stn)),
     reschedule_freq |-> Div(SumSeq(rd.reschedules), Len(rd.reschedules)),
     send_freq |-> Div(SumSeq(rd.sent_schedules), Len(rd.sent_schedules))]

\* the clock readings time.time() can return once the batch is over; the
\* readings of lines 162 and 190 fall in the same tick
TimeAfter(now) == now..Min(now + 1, MaxClock)

\* the rest of _run_stage after multiple_simulations returned
run_stage_aggregate ==
    /\ pc = "aggregate"
    /\ LET stn == stn_pairs[i + 1] IN
       \E now \in TimeAfter(clock) :
         /\ clock' = now
         /\ IF AggregationFails(stn, response_dict)
            THEN /\ pc' = "raised" /\ error' = "ZeroDivisionError"
                 /\ UNCHANGED <<results_dict, history>>
            ELSE /\ results_dict' =
                       ResultsDict(stn, stn, response_dict,
                                   sim_option_instance, random_seed, threads,
                                   execution, sim_count, now - start_time, now)
                 /\ history' = Append(history,
                       [i |-> i, j |-> j, seeds |-> TaskSeeds(tasks),
                        response_dict |-> response_dict,
                        results_dict |-> results_dict'])
                 /\ pc' = "print"
                 /\ UNCHANGED error
    /\ UNCHANGED <<harvest, args, run_args, random_seed, i, j, sim_option_instance,
                   response_dict, live_sink, csv_rows, start_time, batch,
                   ghost, run, prev>>

\* the two indices taken for each other
CurrentGridMajor(idx, jdx, pairs) ==
    IF pairs.some THEN idx + Len(pairs.val) * jdx + 1 ELSE idx + 1

\* the progress values handed to _print_results
Current(idx, jdx, pairs) ==
    IF pairs.some THEN jdx + Len(pairs.val) * idx + 1 ELSE idx + 1
Total(stns, pairs) ==
    IF pairs.some THEN Len(stns) * Len(pairs.val) ELSE Len(stns)

\* if live_updates: _print_results(...)
print_results ==
    /\ pc = "print"
    /\ live_sink' = IF live_updates
                    THEN Append(live_sink,
                                <<results_dict, Current(i, j, ordering_pairs),
                                  Total(stn_pairs, ordering_pairs)>>)
                    ELSE live_sink
    /\ pc' = "save"
    /\ UNCHANGED <<harvest, args, run_args, random_seed, sweep, csv_rows, history,
                   error, clock, start_time, batch, ghost, run, prev>>

\* the row written over the sink instead of appended to it
save_csv_row_overwrite ==
    /\ pc = "save"
    /\ csv_rows' = IF output THEN <<results_dict>> ELSE csv_rows
    /\ IF ordering_pairs.some
       THEN j' = j + 1 /\ UNCHANGED i
       ELSE i' = i + 1 /\ UNCHANGED j
    /\ pc' = "loop"
    /\ UNCHANGED <<harvest, args, run_args, random_seed, sim_option_instance,
                   response_dict, results_dict, live_sink, history, error,
                   clock, start_time, batch, ghost, run, prev>>

\* if output is not None: sim2csv.save_csv_row(...); then the next iteration
save_csv_row ==
    /\ pc = "save"
    /\ csv_rows' = IF output THEN Append(csv_rows, results_dict) ELSE csv_rows
    /\ IF ordering_pairs.some
       THEN j' = j + 1 /\ UNCHANGED i
       ELSE i' = i + 1 /\ UNCHANGED j
    /\ pc' = "loop"
    /\ UNCHANGED <<harvest, args, run_args, random_seed, sim_option_instance,
                   response_dict, results_dict, live_sink, history, error,
                   clock, start_time, batch, ghost, run, prev>>

\* --------------------------------------------------------- folder_harvest
isfile(f, p) == p \in DOMAIN f /\ f[p].type = "file"
isdir(f, p) == p \in DOMAIN f /\ f[p].type = "dir"
\* os.path.splitext(p)[1]
splitext(f, p) == f[p].ext
\* os.listdir(p) of a directory p, in the order the system returns it
listdir(order, p) ==
    IF p = <<1>> THEN order
    ELSE IF p = <<1, 1>> THEN <<1>>
    ELSE <<>>

\* what one step of folder_harvest adds: file paths and warnings
Harvested(files, warnings) == [files |-> files, warned |-> warnings]
\* what is found later put in front
JoinInFront(a, b) == Harvested(b.files \o a.files, b.warned \o a.warned)

\* stn_files.append(...), stn_files += ...: what is found later comes behind
Join(a, b) == Harvested(a.files \o b.files, a.warned \o b.warned)

\* a path that is a file: appended, under only_json only with ext == ".json"
HarvestFile(f, p, only) ==
    IF only
    THEN (IF splitext(f, p) = ".json" THEN Harvested(<<p>>, <<>>)
          ELSE Harvested(<<>>, <<>>))
    ELSE Harvested(<<p>>, <<>>)

HarvestOtherAppended(folder_path) == Harvested(<<folder_path>>, <<folder_path>>)

\* a path of folder_paths that is neither a file nor a directory: two warnings
\* that name it, and nothing appended
HarvestOther(folder_path) == Harvested(<<>>, <<folder_path>>)

DescendAlways(f, long_path, rec) == isdir(f, long_path)

\* elif os.path.isdir(long_path) and recurse
DescendInto(f, long_path, rec) == isdir(f, long_path) /\ rec

RECURSIVE folder_harvest(_, _, _, _, _)
RECURSIVE HarvestContents(_, _, _, _, _, _)

\* the loop over the contents of the directory folder_path; the recursive call
\* passes recurse=True and leaves only_json to its default, and the warning of
\* the last branch names folder_path
HarvestContents(f, order, folder_path, contents, rec, only) ==
    IF contents = <<>> THEN Harvested(<<>>, <<>>)
    ELSE LET long_path == Append(folder_path, Head(contents))
             here ==
                 IF isfile(f, long_path) THEN HarvestFile(f, long_path, only)
                 ELSE IF DescendInto(f, long_path, rec)
                      THEN folder_harvest(f, order, <<long_path>>, TRUE, TRUE)
                 ELSE Harvested(<<>>, <<folder_path>>)
         IN Join(here, HarvestContents(f, order, folder_path, Tail(contents),
                                       rec, only))

\* folder_harvest(folder_paths, recurse, only_json) on the file system f
folder_harvest(f, order, paths, rec, only) ==
    IF paths = <<>> THEN Harvested(<<>>, <<>>)
    ELSE LET folder_path == Head(paths)
             here ==
                 IF isfile(f, folder_path)
                 THEN HarvestFile(f, folder_path, only)
                 ELSE IF isdir(f, folder_path)
                      THEN HarvestContents(f, order, folder_path,
                                           listdir(order, folder_path),
                                           rec, only)
                 ELSE HarvestOther(folder_path)
         IN Join(here, folder_harvest(f, order, Tail(paths), rec, only))

RECURSIVE PathLists(_)
PathLists(n) ==
    IF n = 0 THEN {<<>>}
    ELSE PathLists(n - 1)
         \cup {Append(l, <<t>>) : l \in {m \in PathLists(n - 1) : Len(m) = n - 1},
                                  t \in TopNames}

\* a call of folder_harvest with up to MaxPaths top paths, on any file system
InitHarvest ==
    /\ fs \in FileSystems
    /\ listing = [n \in 1..MaxEntries |-> n]
    /\ folder_paths \in PathLists(MaxPaths)
    /\ recurse \in BOOLEAN /\ only_json \in BOOLEAN
    /\ stn_files = <<>> /\ warned = <<>>
    /\ pc = "harvest"
    /\ stn_pairs = <<>> /\ execution = "early" /\ threads = 1
    /\ sim_count = 0 /\ sim_options = DefaultOptions
    /\ ordering_pairs = NoList /\ output = FALSE /\ live_updates = FALSE
    /\ random_seed = None /\ start_index = 0 /\ stop_index = None
    /\ Fresh

\* the call runs to its return; os.listdir hands the entries of a directory
\* back in an order of its own
folder_harvest_call ==
    /\ pc = "harvest"
    /\ \E order \in ListingOrders :
         /\ listing' = order
         /\ LET res == folder_harvest(fs, order, folder_paths, recurse,
                                      only_json)
            IN stn_files' = res.files /\ warned' = res.warned
    /\ pc' = "harvested"
    /\ UNCHANGED <<fs, folder_paths, recurse, only_json, args, run_args,
                   random_seed, sweep, sinks, error, clock, start_time, batch,
                   ghost, run, prev>>

\* ------------------------------------------------------------ a second run
\* The operator runs a seeded sweep again (same networks, strategy, options,
\* trial count and root seed): either the same window, sequentially or with
\* the largest pool, or one window [k, k + 1) with the same worker count.  The
\* first run's cells are kept for comparison.
rerun ==
    /\ pc = "done" /\ run = 1 /\ random_seed # None
    /\ run' = 2
    /\ prev' = [history |-> history, threads |-> threads,
                start_index |-> start_index, stop_index |-> stop_index]
    /\ \/ /\ threads' \in {1, MaxThreads}
          /\ UNCHANGED <<start_index, stop_index>>
       \/ /\ \E k \in 0..(Len(stn_pairs) - 1) :
               start_index' = k /\ stop_index' = k + 1
          /\ UNCHANGED threads
    /\ pc' = "loop" /\ i' = 0 /\ j' = 0
    /\ live_sink' = <<>> /\ csv_rows' = <<>> /\ history' = <<>>
    /\ UNCHANGED <<harvest, args, random_seed, sim_option_instance, response_dict,
                   results_dict, error, clock, start_time, batch, ghost>>

Next ==
    \/ main
    \/ across_paths_iter
    \/ run_stage_begin
    \/ pool_constructed
    \/ pool_BlockingIOError
    \/ pool_OSError
    \/ pool_loop_exit
    \/ worker_take
    \/ \E k \in 1..MaxCount : worker_finish(k)
    \/ map_return
    \/ map_raise
    \/ seq_trial
    \/ seq_done
    \/ multiple_simulations_return
    \/ run_stage_aggregate
    \/ print_results
    \/ save_csv_row

\* the sweep, run twice
NextTwice == Next \/ rerun

Spec == Init /\ [][Next]_vars

SpecBatch == InitBatch /\ [][NextTwice]_vars

SpecTwice == InitTwice /\ [][NextTwice]_vars

\* one cell, where the pool, the workers and the trials get to take every
\* step they can take
SpecBatchLive == InitBatch /\ [][Next]_vars /\ WF_vars(Next)

SpecSeeded == InitSeeded /\ [][Next]_vars

NextHarvest == folder_harvest_call

SpecHarvest == InitHarvest /\ [][NextHarvest]_vars

\* ================================================================= claims
\* the batch of the current cell has been handed back by multiple_simulations
Returned == pc \in {"aggregate", "print", "save"}

\* C1: with threads > 1, when every pool attempt of a batch fails with
\* BlockingIOError, the pool is attempted exactly 4 times and the call then
\* ends with an error: it never returns a response dictionary.
C1_AllAttemptsBlocked ==
    (threads > 1 /\ attempts > 0 /\ bio_fails = attempts) =>
        /\ attempts <= 4
        /\ pc \in {"pool", "unzip", "raised"}
        /\ (pc \in {"unzip", "raised"} => attempts = 4 /\ ~response.some)
        /\ (pc = "raised" => error = "TypeError")

C1_Witness ==
    /\ threads > 1 /\ pc = "raised" /\ error = "TypeError"
    /\ attempts = 4 /\ bio_fails = 4 /\ submissions = 0

\* C2: with threads > 1, when the pool fails k times (0 <= k <= 3) with
\* BlockingIOError and is then constructed, and no trial fails, the call
\* returns the outcomes of that attempt, one per task, and the pool is not
\* attempted again.
C2_SuccessAfterBlocks ==
    (threads > 1 /\ submissions >= 1 /\ ~trial_failed) =>
        /\ bio_fails <= 3
        /\ attempts = bio_fails + 1
        /\ submissions = 1
        /\ pc # "pool"
        /\ (pc = "raised" => error = "ZeroDivisionError")
        /\ (pc = "unzip" => response.some /\ Len(response.val) = sim_count)
        /\ (Returned => /\ Len(response_dict.sample_results) = sim_count
                        /\ response_dict = Unzip(response.val))

C2_Witness ==
    /\ threads > 1 /\ pc = "aggregate" /\ bio_fails = 3 /\ attempts = 4
    /\ submissions = 1 /\ sim_count >= 2
    /\ Len(response_dict.sample_results) = sim_count

\* C3: once the pool is constructed, a trial failure of any kind is never
\* retried: the trials of a batch are submitted at most once, and the failure
\* ends the batch with an error.
C3_TrialFailureNotRetried ==
    /\ submissions <= 1
    /\ (trial_failed /\ pc \notin {"map", "seq"} => pc = "raised")

\* C4: position k of each list of the response dictionary holds the outcome
\* of the task with trial index k, in both modes and for every order in which
\* the workers finish.
C4_IndexAligned ==
    Returned =>
        /\ Len(response_dict.sample_results) = sim_count
        /\ Len(response_dict.reschedules) = sim_count
        /\ Len(response_dict.sent_schedules) = sim_count
        /\ \A k \in 1..sim_count :
             /\ response_dict.sample_results[k] = trial_outcome[k][1]
             /\ response_dict.reschedules[k] = trial_outcome[k][2]
             /\ response_dict.sent_schedules[k] = trial_outcome[k][3]

C4_Witness ==
    /\ pc = "aggregate" /\ threads > 1 /\ out_of_order /\ sim_count >= 2
    /\ trial_outcome[1] # trial_outcome[2]

\* the second run repeats the first run's window
SameWindow ==
    start_index = prev.start_index /\ stop_index = prev.stop_index
\* one run is sequential, the other uses the worker pool
OneSequentialOnePool ==
    (prev.threads = 1 /\ threads > 1) \/ (prev.threads > 1 /\ threads = 1)

\* C5: for the same task list and a seeded (deterministic) engine, the batch
\* returns the same index-aligned outcome lists in sequential mode and with a
\* worker pool, for every interleaving of the workers.
C5_SequentialEqualsPool ==
    (run = 2 /\ random_seed # None /\ OneSequentialOnePool) =>
        \A a \in DOMAIN prev.history : \A b \in DOMAIN history :
            (prev.history[a].i = history[b].i /\ prev.history[a].j = history[b].j)
                => prev.history[a].response_dict = history[b].response_dict

C5_Witness ==
    /\ run = 2 /\ random_seed # None /\ prev.threads = 1 /\ threads > 1
    /\ pc = "print" /\ out_of_order /\ sim_count >= 2
    /\ Len(prev.history) = 1 /\ Len(history) = 1
    /\ trial_outcome[1] # trial_outcome[2]

\* two records agree in every field but the two wall-clock readings
SameButTime(a, b) ==
    [a EXCEPT !.runtime = 0, !.timestamp = 0]
        = [b EXCEPT !.runtime = 0, !.timestamp = 0]

GridSize == IF ordering_pairs.some THEN Len(ordering_pairs.val) ELSE 1

\* the second run is the sub-sweep start_index = k, stop_index = k + 1 of a
\* full first run
SubSweep(k) ==
    /\ run = 2 /\ pc = "done"
    /\ prev.start_index = 0 /\ prev.stop_index = None
    /\ start_index = k /\ stop_index = k + 1
    /\ threads = prev.threads

\* C6 as claimed: start/stop range over the combined index, so the sub-sweep
\* [k, k + 1) runs exactly one cell, and its record is (up to the clock
\* readings) the record at position k of the full run.
C6_CombinedIndexWindow ==
    \A k \in 0..(Len(stn_pairs) - 1) :
        SubSweep(k) =>
            /\ Len(history) = 1
            /\ SameButTime(history[1].results_dict,
                           prev.history[k + 1].results_dict)

\* C6 amended: start/stop range over the network index, so the sub-sweep
\* [k, k + 1) runs the GridSize cells of network k, in grid order, and their
\* records are (up to the clock readings) the records at positions
\* k * GridSize .. k * GridSize + GridSize - 1 of the full run.
C6_NetworkIndexWindow ==
    \A k \in 0..(Len(stn_pairs) - 1) :
        SubSweep(k) =>
            /\ Len(history) = GridSize
            /\ Len(prev.history) = Len(stn_pairs) * GridSize
            /\ \A g \in 1..GridSize :
                 /\ history[g].i = k
                 /\ history[g].j = g - 1
                 /\ SameButTime(history[g].results_dict,
                                prev.history[k * GridSize + g].results_dict)

C6_Witness ==
    /\ SubSweep(1) /\ GridSize = 2 /\ Len(history) = 2
    /\ history[1].results_dict # history[2].results_dict

\* C7: with a root seed, two batches with the same root seed and trial count
\* get the same sub-seeds, trial index by trial index.
C7_SameSubSeeds ==
    (run = 2 /\ random_seed # None) =>
        \A a \in DOMAIN prev.history : \A b \in DOMAIN history :
            /\ Len(history[b].seeds) = sim_count
            /\ prev.history[a].seeds = history[b].seeds

C7_Witness ==
    /\ run = 2 /\ random_seed # None /\ sim_count >= 2
    /\ Len(prev.history) = 1 /\ Len(history) = 1
    /\ history[1].seeds[1] # history[1].seeds[2]

\* the second run repeats the first: same window, same worker count, and both
\* ran to the end
Repeated ==
    /\ run = 2 /\ pc = "done" /\ random_seed # None
    /\ SameWindow /\ threads = prev.threads

\* C8 as claimed: a repeated sweep with the same root seed yields identical
\* records, field for field, for every cell.
C8_IdenticalRecords ==
    Repeated =>
        /\ Len(history) = Len(prev.history)
        /\ \A c \in DOMAIN history :
             history[c].results_dict = prev.history[c].results_dict

\* C8 amended: the records of the two runs agree, cell by cell, in every
\* field except runtime and timestamp, which are readings of the wall clock.
C8_IdenticalButTime ==
    Repeated =>
        /\ Len(history) = Len(prev.history)
        /\ \A c \in DOMAIN history :
             SameButTime(history[c].results_dict, prev.history[c].results_dict)

C8_Witness ==
    /\ Repeated /\ Len(history) >= 2
    /\ history[1].results_dict.timestamp
           # prev.history[1].results_dict.timestamp
    /\ history[1].results_dict.robustness
           # history[2].results_dict.robustness

\* C9: every record emitted by a sweep carries a root seed in random_seed,
\* also when the sweep was called without one.
C9_RecordHasRootSeed ==
    \A c \in DOMAIN history : history[c].results_dict.random_seed # None

\* C10: a record of a batch of N >= 1 trials has robustness = successes / N,
\* between 0 and 1; it is 1 exactly when every trial succeeded and 0 exactly
\* when every trial failed.
Successes == Cardinality({k \in 1..sim_count : trial_outcome[k][1] = TRUE})

C10_Robustness ==
    pc \in {"print", "save"} =>
        LET rob == results_dict.robustness IN
        /\ sim_count >= 1
        /\ rob[1] * sim_count = Successes * rob[2]
        /\ rob[2] >= 1 /\ 0 <= rob[1] /\ rob[1] <= rob[2]
        /\ (rob = <<1, 1>> <=> Successes = sim_count)
        /\ (rob = <<0, 1>> <=> Successes = 0)

C10_Witness ==
    /\ pc = "print" /\ sim_count = 2 /\ Successes = 1
    /\ results_dict.robustness = <<1, 2>>

\* the sum over the trials of a batch of component c of the trial's outcome
RECURSIVE OutcomeSum(_, _)
OutcomeSum(n, c) ==
    IF n = 0 THEN 0 ELSE trial_outcome[n][c] + OutcomeSum(n - 1, c)

\* C11: in every record, reschedule_freq is the sum of the trials' reschedule
\* counts divided by the number of trials, and send_freq the sum of their
\* sent-schedule counts divided by the number of trials; when every trial
\* reports the same count c, the frequency is c.
C11_Frequencies ==
    pc \in {"print", "save"} =>
        LET rf == results_dict.reschedule_freq
            sf == results_dict.send_freq
        IN /\ sim_count >= 1
           /\ rf[2] >= 1 /\ sf[2] >= 1
           /\ rf[1] * sim_count = OutcomeSum(sim_count, 2) * rf[2]
           /\ sf[1] * sim_count = OutcomeSum(sim_count, 3) * sf[2]
           /\ \A c \in 0..2 :
                /\ (\A k \in 1..sim_count : trial_outcome[k][2] = c)
                       => rf = <<c, 1>>
                /\ (\A k \in 1..sim_count : trial_outcome[k][3] = c)
                       => sf = <<c, 1>>

C11_Witness ==
    /\ pc = "print" /\ sim_count = 2
    /\ trial_outcome[1][2] = 1 /\ trial_outcome[2][2] = 1
    /\ results_dict.reschedule_freq = <<1, 1>>
    /\ results_dict.send_freq = <<0, 1>>

\* C12: a cell run with a trial count of 0 fails in the aggregation step with
\* a division error whenever its (empty) batch comes back from
\* multiple_simulations, which it always does in sequential mode; in every
\* case _run_stage returns no record for it and nothing reaches the live
\* progress sink or the persistent sink.
C12_ZeroTrials ==
    sim_count = 0 =>
        /\ pc \notin {"print", "save", "done"}
        /\ i = 0 /\ j = 0
        /\ results_dict = <<>> /\ history = <<>>
        /\ live_sink = <<>> /\ csv_rows = <<>>
        /\ (pc = "raised" /\ (threads = 1 \/ response.some)
               => error = "ZeroDivisionError")
        /\ (pc = "raised" /\ error = "ZeroDivisionError"
               => response_dict.sample_results = <<>>)

C12_Witness ==
    /\ sim_count = 0 /\ pc = "raised" /\ error = "ZeroDivisionError"
    /\ threads > 1 /\ submissions = 1 /\ live_updates /\ output

\* the cell (i, j) is being run, or was interrupted by an error
InCell == pc \in {"stage", "pool", "map", "seq", "unzip", "aggregate", "raised"}

\* the record r is the record of a cell whose batch of sim_count trials came
\* back whole and whose aggregation finished
OfCompleteCell(r) ==
    \E c \in DOMAIN history :
        /\ history[c].results_dict = r
        /\ Len(history[c].response_dict.sample_results) = sim_count
        /\ \A k \in 1..sim_count :
             /\ history[c].response_dict.reschedules[k] # None
             /\ history[c].response_dict.sent_schedules[k] # None

\* the record r is a record of the current cell
OfCurrentCell(r) ==
    /\ r.stn_path = stn_pairs[i + 1]
    /\ r.ar_threshold = sim_option_instance.ar_threshold
    /\ r.si_threshold = sim_option_instance.si_threshold

\* C13: a record reaches the live progress sink or the persistent sink only
\* for a cell whose whole batch of trials completed and whose aggregation
\* finished; a cell in progress, or interrupted by a pool failure, a trial
\* failure or an aggregation error, has no record in either sink.
C13_NoPartialRecord ==
    /\ \A n \in DOMAIN live_sink : OfCompleteCell(live_sink[n][1])
    /\ \A n \in DOMAIN csv_rows : OfCompleteCell(csv_rows[n])
    /\ (InCell \/ pc = "print") =>
            \A n \in DOMAIN live_sink :
                /\ ~OfCurrentCell(live_sink[n][1])
                /\ live_sink[n][2] # Current(i, j, ordering_pairs)
    /\ (InCell \/ pc \in {"print", "save"}) =>
            \A n \in DOMAIN csv_rows : ~OfCurrentCell(csv_rows[n])
    /\ pc \in {"print", "save"} =>
            /\ \A k \in 1..sim_count : trial_outcome[k] # NoResult
            /\ response_dict = Unzip(trial_outcome)
            /\ history[Len(history)].results_dict = results_dict

\* the second cell of a sweep fails once the first cell's record is out
C13_Witness ==
    /\ pc = "raised" /\ trial_failed /\ Len(history) = 1
    /\ Len(live_sink) = 1 /\ Len(csv_rows) = 1
    /\ OfCompleteCell(csv_rows[1]) /\ ~OfCurrentCell(csv_rows[1])

\* the record r belongs to a cell that comes before the current cell (i, j)
OfEarlierCell(r) ==
    \/ r.stn_path < stn_pairs[i + 1]
    \/ /\ r.stn_path = stn_pairs[i + 1]
       /\ ordering_pairs.some
       /\ r.ar_threshold < sim_option_instance.ar_threshold

\* a trial's exception has left multiple_simulations
TrialAborted == error \in TrialErrors

\* C14: the sweep is fail-fast.  Once a trial failure has aborted the batch of
\* cell c, the run has ended with that error: the sinks hold records of
\* earlier cells only, and across_paths takes no further step, so no trial of
\* a later cell runs and no record of c or of a later cell is emitted.
C14_FailFast ==
    /\ [](TrialAborted =>
            /\ pc = "raised" /\ trial_failed
            /\ \A n \in DOMAIN live_sink :
                 /\ OfEarlierCell(live_sink[n][1])
                 /\ live_sink[n][2] < Current(i, j, ordering_pairs)
            /\ \A n \in DOMAIN csv_rows : OfEarlierCell(csv_rows[n])
            /\ \A n \in DOMAIN history : OfEarlierCell(history[n].results_dict))
    /\ [][~TrialAborted]_vars

\* a trial of the second grid cell of the first of two networks fails
C14_Witness ==
    /\ TrialAborted /\ pc = "raised"
    /\ Len(stn_pairs) = 2 /\ i = 0
    /\ ordering_pairs.some /\ Len(ordering_pairs.val) = 2 /\ j = 1
    /\ Len(csv_rows) = 1 /\ Len(live_sink) = 1

Range(s) == {s[k] : k \in DOMAIN s}
\* the path is neither a file nor a directory
Unresolvable(p) == ~isfile(fs, p) /\ ~isdir(fs, p)
Resolvable(p) == ~Unresolvable(p)

\* C15: folder_harvest does not fail on a path of folder_paths that is neither
\* a file nor a directory: it returns, it has warned about every such path,
\* in order, and no such path is in the result, which is what the call
\* returns for folder_paths with the unresolvable paths removed.
C15_UnresolvableSkipped ==
    pc = "harvested" =>
        LET kept == SelectSeq(folder_paths, Resolvable)
            res == folder_harvest(fs, listing, kept, recurse, only_json)
        IN /\ stn_files = res.files
           /\ \A n \in DOMAIN stn_files : Resolvable(stn_files[n])
           /\ SelectSeq(warned, LAMBDA p : Len(p) = 1 /\ Unresolvable(p))
                  = SelectSeq(folder_paths, Unresolvable)

C15_Witness ==
    /\ pc = "harvested" /\ Len(folder_paths) = 2
    /\ Unresolvable(folder_paths[1]) /\ isdir(fs, folder_paths[2])
    /\ Len(stn_files) = 2 /\ warned = <<folder_paths[1]>>

\* the .json files that lie directly in the directory d
DirectJsonFiles(d) == {p \in FsPaths : Len(p) > 1 /\ Parent(p) = d /\ fs[p] = JsonFile}

\* C16: folder_harvest with recurse = False (and the .json filter on) on one
\* directory returns exactly the .json files that lie directly in it: no
\* other file, no file of a subdirectory, no file twice, and the same set
\* for every order in which the directory is listed.
C16_DirectMatchesOnly ==
    (/\ pc = "harvested" /\ ~recurse /\ only_json
     /\ Len(folder_paths) = 1 /\ isdir(fs, folder_paths[1])) =>
        /\ Range(stn_files) = DirectJsonFiles(folder_paths[1])
        /\ Len(stn_files) = Cardinality(DirectJsonFiles(folder_paths[1]))
        /\ \A o \in ListingOrders :
             Range(folder_harvest(fs, o, folder_paths, recurse,
                                  only_json).files) = Range(stn_files)

\* a directory with a .json file and a subdirectory that holds another one,
\* listed subdirectory last
C16_Witness ==
    /\ pc = "harvested" /\ ~recurse /\ only_json
    /\ folder_paths = <<<<1>>>> /\ fs[<<1>>] = Directory
    /\ fs[<<1, 1>>] = Directory /\ fs[<<1, 1, 1>>] = JsonFile
    /\ fs[<<1, 2>>] = JsonFile
    /\ listing[1] = 2
    /\ stn_files = <<<<1, 2>>>>

\* C17: every call of multiple_simulations that returns yields one outcome
\* per task: there are as many tasks as requested trials, and each of the
\* three returned lists has that length, sequentially, with a pool, and after
\* any number of pool retries.
C17_OneOutcomePerTask ==
    Returned =>
        /\ Len(tasks) = sim_count
        /\ response.some /\ Len(response.val) = Len(tasks)
        /\ Len(response_dict.sample_results) = sim_count
        /\ Len(response_dict.reschedules) = sim_count
        /\ Len(response_dict.sent_schedules) = sim_count

\* a pool batch of two trials returned by its third submission
C17_Witness ==
    /\ pc = "aggregate" /\ threads > 1 /\ sim_count = 2
    /\ submissions = 3 /\ bio_fails = 1 /\ attempts = 4
    /\ Len(response_dict.sample_results) = 2

\* the engine instance the helper runs trial k on: tup[0] of its task
EngineOf(k) == tasks[k][1].id

\* C18: in a batch each trial runs on its own engine instance: the tasks hold
\* one engine each, no engine is the engine of two trials, and two trials that
\* run at the same time never work on the same engine.
C18_OwnEngine ==
    /\ \A k, m \in DOMAIN tasks : EngineOf(k) = EngineOf(m) => k = m
    /\ \A k, m \in running : EngineOf(k) = EngineOf(m) => k = m
    /\ Cardinality({EngineOf(k) : k \in DOMAIN tasks}) = Len(tasks)

\* two trials of a batch run at the same time
C18_Witness ==
    /\ pc = "map" /\ Cardinality(running) = 2
    /\ EngineOf(1) # EngineOf(2)

\* C19: in every record, mean_verts_agent is the mean over the network's
\* agents of the number of vertices each agent owns (what mean_agent_verts
\* computes), and max_verts_agent is the largest of those numbers.
C19_VertsPerAgent ==
    pc \in {"print", "save"} =>
        LET stn == stn_pairs[i + 1] IN
        /\ results_dict.mean_verts_agent = mean_agent_verts(stn)
        /\ \A a \in StnAgents(stn) :
             get_agent_verts(stn, a) <= results_dict.max_verts_agent
        /\ \E a \in StnAgents(stn) :
             get_agent_verts(stn, a) = results_dict.max_verts_agent

\* the contingent edges of the network whose sigma is defined
DefinedSigmas(stn) == SelectSeq(StnContingentSigma(stn), LAMBDA x : x # None)

\* C20: in every record, sd_avg is the mean sigma of the contingent edges
\* whose sigma is defined: an edge with an undefined sigma adds neither to
\* the sum nor to the count the sum is divided by.
C20_SdAvgOverDefined ==
    pc \in {"print", "save"} =>
        LET stn == stn_pairs[i + 1] IN
        Len(DefinedSigmas(stn)) > 0 =>
            results_dict.sd_avg
                = Div(SumSeq(DefinedSigmas(stn)), Len(DefinedSigmas(stn)))

\* the path p lies under one of folder_paths, inside directories only
Harvestable(p) ==
    /\ p \in FsPaths
    /\ \E n \in DOMAIN folder_paths : folder_paths[n] = SubSeq(p, 1, 1)
    /\ \A d \in 1..(Len(p) - 1) : isdir(fs, SubSeq(p, 1, d))

\* the position of x in the sequence s
Position(s, x) == CHOOSE n \in DOMAIN s : s[n] = x

\* the first name in which the paths a and b differ
Fork(a, b) == CHOOSE k \in 1..Len(a) : a[k] # b[k] /\ SubSeq(a, 1, k - 1) = SubSeq(b, 1, k - 1)

\* depth-first order: a comes before b when, where the two paths part, a's
\* branch is listed first (in folder_paths at the top, else in the listing of
\* the directory they share)
DepthFirstBefore(a, b) ==
    LET k == Fork(a, b) IN
    IF k = 1
    THEN Position(folder_paths, SubSeq(a, 1, 1))
             < Position(folder_paths, SubSeq(b, 1, 1))
    ELSE Position(listdir(listing, SubSeq(a, 1, k - 1)), a[k])
             < Position(listdir(listing, SubSeq(a, 1, k - 1)), b[k])

NoOverlap(paths) == \A n, m \in DOMAIN paths : paths[n] = paths[m] => n = m

\* C21: folder_harvest with recurse = True (and the .json filter on) on paths
\* that do not overlap returns every .json file found at any depth under
\* them, each once, in depth-first order: the files of a subdirectory stand
\* together where the subdirectory is listed in its parent, and the paths
\* named in folder_paths keep the order of that list.
C21_DepthFirst ==
    (pc = "harvested" /\ recurse /\ only_json /\ NoOverlap(folder_paths)) =>
        /\ Range(stn_files) = {p \in FsPaths : Harvestable(p) /\ fs[p] = JsonFile}
        /\ \A n, m \in DOMAIN stn_files :
             /\ stn_files[n] = stn_files[m] => n = m
             /\ n < m => DepthFirstBefore(stn_files[n], stn_files[m])

\* a file named after a directory that holds a subdirectory's file and a file
C21_Witness ==
    /\ pc = "harvested" /\ recurse /\ only_json
    /\ folder_paths = <<<<2>>, <<1>>>>
    /\ stn_files = <<<<2>>, <<1, 1, 1>>, <<1, 2>>>>

\* the options a cell of grid pair g runs with: the caller's, but for the two
\* thresholds of the pair
CellOptions(g) ==
    [ar_threshold |-> ordering_pairs.val[g][1],
     si_threshold |-> ordering_pairs.val[g][2],
     alp_threshold |-> DefaultOptions.alp_threshold]

\* C22: in a grid sweep every cell gets its own copy of the option set: the
\* caller's option set stays as it was given, the tasks of a cell carry the
\* caller's options with the ar_threshold and si_threshold of the cell's own
\* grid pair and the caller's alp_threshold, whatever the cells before it
\* ran with, and each record reports the two thresholds of its own pair.
C22_OptionsCopiedPerCell ==
    ordering_pairs.some =>
        /\ sim_options = DefaultOptions
        /\ pc \in {"stage", "pool", "map", "seq", "unzip", "aggregate",
                    "print", "save"}
              => sim_option_instance = CellOptions(j + 1)
        /\ pc \in {"pool", "map", "seq", "unzip", "aggregate", "print", "save"}
              => \A k \in DOMAIN tasks : tasks[k][4] = CellOptions(j + 1)
        /\ \A c \in DOMAIN history :
             /\ history[c].results_dict.ar_threshold
                    = CellOptions(history[c].j + 1).ar_threshold
             /\ history[c].results_dict.si_threshold
                    = CellOptions(history[c].j + 1).si_threshold

\* the sweep of a grid of two pairs is over
C22_Witness ==
    /\ ordering_pairs.some /\ Len(ordering_pairs.val) = 2 /\ pc = "done"
    /\ Len(history) >= 2 /\ sim_options = DefaultOptions
    /\ history[1].results_dict.ar_threshold = 1
    /\ history[2].results_dict.ar_threshold = 2
    /\ history[2].results_dict.si_threshold = 3

\* the combined index of cell c of the run: network-major, grid-minor
CombinedIndex(c) == history[c].i * GridSize + history[c].j

\* C23: the cells are run one after the other in increasing combined index
\* and their records are emitted in that order; the live progress of a cell
\* is (its combined index + 1, number of networks * grid size), so current
\* rises by exactly 1 from one emitted cell to the next and stays within
\* 1..total.
C23_ProgressInOrder ==
    /\ \A c \in DOMAIN history :
         /\ history[c].i \in 0..(Len(stn_pairs) - 1)
         /\ history[c].j \in 0..(GridSize - 1)
         /\ c > 1 => CombinedIndex(c) = CombinedIndex(c - 1) + 1
    /\ live_updates =>
         /\ Len(live_sink) = Len(history) - (IF pc = "print" THEN 1 ELSE 0)
         /\ \A n \in DOMAIN live_sink :
              /\ live_sink[n][1] = history[n].results_dict
              /\ live_sink[n][2] = CombinedIndex(n) + 1
              /\ live_sink[n][3] = Len(stn_pairs) * GridSize
              /\ 1 <= live_sink[n][2] /\ live_sink[n][2] <= live_sink[n][3]
              /\ n > 1 => live_sink[n][2] = live_sink[n - 1][2] + 1
    /\ output =>
         \A n \in DOMAIN csv_rows : csv_rows[n] = history[n].results_dict

\* the last cell of a sweep of two networks over a grid of two pairs
C23_Witness ==
    /\ live_updates /\ pc = "done" /\ Len(stn_pairs) = 2 /\ GridSize = 2
    /\ Len(live_sink) = 4 /\ live_sink[4][2] = 4 /\ live_sink[4][3] = 4
    /\ live_sink[3][2] = 3

\* the records of the cells completed so far, but for the one being emitted
SavedSoFar ==
    [n \in 1..(Len(history) - (IF pc \in {"print", "save"} THEN 1 ELSE 0))
        |-> history[n].results_dict]

\* C24: with an output sink, every cell that completes is appended to the
\* persistent sink exactly once, after its live progress when that is on,
\* also when its batch needed pool retries; a retry or a fatal failure in a
\* later cell neither removes nor appends again a record of an earlier cell:
\* the sink only ever grows by one record at its end.
C24_SavedExactlyOnce ==
    /\ [](output =>
            /\ csv_rows = SavedSoFar
            /\ live_updates => Len(live_sink) >= Len(csv_rows)
            /\ \A n, m \in DOMAIN history :
                 (history[n].i = history[m].i /\ history[n].j = history[m].j)
                     => n = m)
    /\ [][\/ csv_rows' = csv_rows
          \/ /\ output /\ pc = "save"
             /\ csv_rows' = Append(csv_rows, results_dict)]_vars

\* two cells are saved; the next one fails for good after four blocked pools
C24_Witness ==
    /\ output /\ live_updates /\ Len(csv_rows) = 2 /\ Len(history) = 2
    /\ pc = "raised" /\ error = "TypeError" /\ sleeps = 4

\* multiple_simulations is running
InBatch == pc \in {"pool", "map", "seq", "unzip"}

\* C25: when pool construction and every trial terminate,
\* multiple_simulations terminates for every trial count and thread count: it
\* returns the response dictionary or raises, after at most 4 pool attempts
\* and at most 4 backoff waits.
C25_Terminates ==
    /\ [](/\ try_count <= MaxRetries + 1
          /\ attempts <= MaxRetries + 1
          /\ sleeps <= MaxRetries + 1)
    /\ (InBatch ~> (pc \in {"aggregate", "raised"}))

\* a batch returned by its fourth pool, after three waits
C25_Witness ==
    /\ pc = "aggregate" /\ threads > 1 /\ sim_count >= 1
    /\ attempts = 4 /\ submissions = 4 /\ sleeps = 3

Max(a, b) == IF a > b THEN a ELSE b

\* the network with index n lies in the window of start_index and stop_index
InWindow(n) == start_index <= n /\ (stop_index = None \/ n < stop_index)

\* the number of networks the window holds, of the N loaded ones
WindowSize ==
    LET N == Len(stn_pairs) IN
    Max(0, (IF stop_index = None THEN N ELSE Min(stop_index, N)) - start_index)

\* C26: the cells a sweep runs are decided by the network index alone: a
\* network is run, with every cell of its grid, exactly when start_index <= i
\* and stop_index is absent or i < stop_index; a sweep that runs to its end
\* has run max(0, min(stop_index, N) - start_index) * grid_size cells, and
\* none when stop_index <= start_index.
C26_WindowOfNetworks ==
    /\ \A c \in DOMAIN history : InWindow(history[c].i)
    /\ pc = "done" =>
         /\ {<<history[c].i, history[c].j>> : c \in DOMAIN history}
                = {n \in 0..(Len(stn_pairs) - 1) : InWindow(n)}
                      \X (0..(GridSize - 1))
         /\ Len(history) = WindowSize * GridSize
         /\ (stop_index # None /\ stop_index <= start_index) => history = <<>>

\* the window [1, 2) of two networks over a grid of two pairs
C26_Witness ==
    /\ pc = "done" /\ start_index = 1 /\ stop_index = 2
    /\ Len(stn_pairs) = 2 /\ GridSize = 2
    /\ Len(history) = 2 /\ history[1].i = 1 /\ history[2].i = 1

\* C27: in a sweep run with a root seed the generator is seeded anew with
\* that root seed for every cell, so trial k of every cell, whatever its
\* network and grid pair, gets the same sub-seed, and every record reports
\* the same random_seed, the root seed.
C27_SameSeedsEveryCell ==
    (random_seed # None /\ pc # "main") =>
        /\ \A c, d \in DOMAIN history :
             /\ Len(history[c].seeds) = sim_count
             /\ \A k \in 1..sim_count :
                  history[c].seeds[k] = history[d].seeds[k]
             /\ history[c].results_dict.random_seed = random_seed
        /\ (pc \in {"pool", "map", "seq", "unzip", "aggregate"}
               /\ history # <<>>) => TaskSeeds(tasks) = history[1].seeds

\* four cells, two networks by two grid pairs, of two trials each
C27_Witness ==
    /\ random_seed # None /\ pc = "done" /\ sim_count >= 2
    /\ Len(history) = 4
    /\ history[1].seeds[1] # history[1].seeds[2]
    /\ history[4].seeds = history[1].seeds
    /\ history[4].i # history[1].i /\ history[4].j # history[1].j

\* C28: a backoff wait happens only between two pool attempts: once the last
\* attempt of a batch is made, the waits are as many as the retries (the
\* attempts but the first), at most 3, and no wait follows the last attempt
\* before the fatal error.
C28_WaitsBetweenAttempts ==
    /\ sleeps <= MaxRetries
    /\ (attempts >= 1 /\ (pc \notin {"pool", "map"} \/ ~TryAgain(try_count)))
           => sleeps <= attempts - 1

\* C29: with threads <= 1 the trials run one after the other, in trial-index
\* order, in the calling process: no pool is built, nothing waits, nothing is
\* retried; a failure of trial k, of any error type, leaves the call at once
\* with that error, and no trial after k is run.
C29_SequentialMode ==
    threads <= 1 =>
        /\ pc \notin {"pool", "map"}
        /\ attempts = 0 /\ submissions = 0 /\ sleeps = 0 /\ try_count = 0
        /\ running = {} /\ ~out_of_order
        /\ pc \in {"seq", "unzip", "raised"} =>
              /\ Len(partial) <= Len(tasks)
              /\ \A k \in 1..Len(tasks) :
                   IF k <= Len(partial)
                   THEN trial_outcome[k] = partial[k] /\ partial[k] # NoResult
                   ELSE trial_outcome[k] = NoResult
        /\ trial_failed =>
              /\ pc = "raised" /\ error \in TrialErrors
              /\ Len(partial) < Len(tasks)

\* the first of two trials fails with BlockingIOError; the second never runs
C29_Witness ==
    /\ threads = 1 /\ sim_count = 2 /\ pc = "raised"
    /\ error = "BlockingIOError" /\ partial = <<>>
    /\ trial_outcome[2] = NoResult

\* C30: folder_harvest applies the caller's only_json at every depth: with
\* only_json = False and recurse = True the result holds every file at every
\* depth under the given paths, whatever its extension.
C30_FilterAtEveryDepth ==
    (pc = "harvested" /\ ~only_json /\ recurse) =>
        Range(stn_files) = {p \in FsPaths : Harvestable(p) /\ isfile(fs, p)}
====
